---- MODULE Spec2Model ----
(***************************************************************************)
(* Overlay network driver (drivers/overlay/ov_network.go): the persisted   *)
(* network configuration, VNI allocation against the shared store, the     *)
(* network registry, and the join/leave sandbox state machine.             *)
(***************************************************************************)
EXTENDS Integers, Sequences, FiniteSets, TLC

(* ------------------------------ bounds --------------------------------- *)
\* number of concurrent obtainVxlanID callers (odd callers run on host h1,
\* even callers on host h2)
NCallers == 3
\* the IdentifierAllocator hands out ids 1..MaxVni (0 means unallocated)
MaxVni == 2
\* registry operations (CreateNetwork / DeleteNetwork / Lookup) per run
MaxRegOps == 3
\* number of concurrent joiners of the network
NProcs == 2
\* number of subnets of the joined network
NSubnets == 1
\* addresses are AddrBits wide, so mask lengths range over 0..AddrBits
AddrBits == 6
\* longest subnet list of a configuration given to the codec
MaxCodecSubnets == 2
\* most messages one Receive of the watcher returns
MaxMsgs == 2

Hosts == {"h1", "h2"}
Callers == 1..NCallers
HostOf(c) == IF c % 2 = 1 THEN "h1" ELSE "h2"
NetIds == {"n1"}
VniIds == 1..MaxVni
Procs == 1..NProcs
Subnets == 1..NSubnets

(* ------------------------------ CIDRs ---------------------------------- *)
\* a *net.IPNet: an address and a mask length; NilCIDR is the nil pointer
NilCIDR == [ip |-> 0, len |-> 0, nil |-> TRUE]
CIDR(i, l) == [ip |-> i, len |-> l, nil |-> FALSE]

\* the IPAM pools CreateNetwork is given: (pool, gateway) pairs
PoolA == [Pool |-> CIDR(16, 4), Gateway |-> CIDR(17, 4)]
PoolB == [Pool |-> CIDR(32, 4), Gateway |-> CIDR(33, 4)]
\* the inputs CreateNetwork is called with: the pools, and whether the
\* options carry the disableDefaultGW label
CreateInputs == {[pools |-> <<>>, gw |-> FALSE],
                 [pools |-> <<PoolA>>, gw |-> FALSE],
                 [pools |-> <<PoolA, PoolB>>, gw |-> TRUE]}

VARIABLES
    store,       \* the shared datastore: key ("overlay","network",id) -> entry
    allocated,   \* IdentifierAllocator (vxlanIdm): the ids in use
    networks,    \* per host: the driver's networkTable, id -> *network
    pc,          \* per caller: position inside obtainVxlanID
    sub,         \* per caller: index of the subnet it was called with
    vxlanID,     \* per caller: the local vxlanID of obtainVxlanID
    putErr,      \* per caller: the err of the failed writeToStore
    ret,         \* per caller: what obtainVxlanID returned
    handedOut,   \* history: ids GetID handed out to obtainVxlanID calls
    retVni,      \* history: in-memory s.vni when the call returned
    retStoreVni, \* history: persisted vni of the subnet when the call returned
    regOps,      \* number of registry operations performed
    lastOp,      \* history: the last registry operation and its outcome
    del,         \* per host: the network a DeleteNetwork in progress holds
    jpc,         \* per joiner: position in its join / leave
    jsub,        \* per joiner: the subnet it joins
    jg,          \* per joiner: the guard (sync.Once) it entered
    jsb,         \* per joiner: the local sbox of initSandbox / initSubnetSandbox / destroySandbox
    jret,        \* history: what the joiner's JoinSandbox returned
    joinCnt,     \* n.joinCnt
    once,        \* n.once: the guard the network points at
    guards,      \* every sync.Once allocated so far: state, and history of its runs
    initErr,     \* n.initErr
    initEpoch,   \* n.initEpoch
    sbox,        \* n.sbox: 0 is nil, else a sandbox of sandboxes
    sOnce,       \* per subnet: s.once
    sInitErr,    \* per subnet: s.initErr
    vxlanName,   \* per subnet: s.vxlanName is set
    brName,      \* per subnet: s.brName is set
    hostMode,    \* the package's hostMode
    hostModeDone,\* hostModeOnce has run
    probe,       \* history: how the run of setHostMode ended
    watchers,    \* the watchMiss goroutines started so far
    chain,       \* the per-network filter chain is installed
    filters,     \* subnets whose host-mode filters are installed
    sandboxes,   \* every sandbox created so far: key, alive, interfaces
    vxlanDev,    \* subnets whose vxlan device exists in the kernel
    panicked,    \* the process died of a nil dereference
    strayLeave,  \* history: LeaveSandbox was called without a join before it
    codec,       \* a codec or lookup call: its network, argument and result
    miss         \* a watcher's batch of messages: the messages, the position, the calls made

storeVars == <<store, allocated, networks, pc, sub, vxlanID, putErr, ret,
               handedOut, retVni, retStoreVni, regOps, lastOp, del>>

jProc == <<jpc, jsub, jg, jsb, jret>>
jNet == <<joinCnt, once, guards, initErr, initEpoch, watchers, sbox>>
jSubn == <<sOnce, sInitErr, vxlanName, brName>>
jKern == <<hostMode, hostModeDone, probe, chain, filters, sandboxes, vxlanDev>>
jHist == <<panicked, strayLeave>>
joinVars == <<jProc, jNet, jSubn, jKern, jHist>>

vars == <<storeVars, joinVars, codec, miss>>

NoNet == [present |-> FALSE]
NoEntry == [exists |-> FALSE]
NoDel == [present |-> FALSE]
NoOp == [op |-> "none", host |-> "", id |-> "", pools |-> <<>>, outcome |-> "",
         wasReg |-> FALSE, delOutcome |-> "", nsub |-> 0,
         vnisBefore |-> {}, vnisAfter |-> {}]

(* --------------------------- ConfigCodec ------------------------------- *)
\* net.IPNet.String(): "<nil>" for a nil pointer
CIDRString(c) ==
    IF c.nil THEN [txt |-> "<nil>", ip |-> 0, len |-> 0]
    ELSE [txt |-> "cidr", ip |-> c.ip, len |-> c.len]

\* a parse that would keep only the network number of the address
ParseCIDRMasked(str) ==
    IF str.txt = "cidr"
    THEN CIDR((str.ip \div 2^(AddrBits - str.len)) * 2^(AddrBits - str.len), str.len)
    ELSE NilCIDR

\* types.ParseCIDR: the address as written (n.IP = i), with the mask of the
\* suffix; nil on a parse error
ParseCIDR(str) ==
    IF str.txt = "cidr" THEN CIDR(str.ip, str.len) ELSE NilCIDR

\* (s *subnet) MarshalJSON
subnetMarshalJSON(s) ==
    [vni |-> s.vni, gwIP |-> CIDRString(s.gwIP), subnetIP |-> CIDRString(s.subnetIP)]

\* (s *subnet) UnmarshalJSON: vni, then gwIP, then subnetIP; it returns at the
\* first address that does not parse, leaving the later fields nil
subnetUnmarshalJSON(j) ==
    IF ParseCIDR(j.gwIP).nil
    THEN [vni |-> j.vni, gwIP |-> NilCIDR, subnetIP |-> NilCIDR, err |-> TRUE]
    ELSE IF ParseCIDR(j.subnetIP).nil
    THEN [vni |-> j.vni, gwIP |-> ParseCIDR(j.gwIP), subnetIP |-> NilCIDR, err |-> TRUE]
    ELSE [vni |-> j.vni, gwIP |-> ParseCIDR(j.gwIP),
          subnetIP |-> ParseCIDR(j.subnetIP), err |-> FALSE]

\* (nc *networkConfiguration) MarshalJSON
networkConfigurationMarshalJSON(nc) ==
    [disableDefaultGW |-> nc.disableDefaultGW,
     subnets |-> [i \in 1..Len(nc.subnets) |-> subnetMarshalJSON(nc.subnets[i])]]

\* (nc *networkConfiguration) UnmarshalJSON: json.Unmarshal(sj, &subnets) with
\* its error dropped: the decoding of the list stops at the first subnet that
\* fails, which stays in the list as far as it was decoded
networkConfigurationUnmarshalJSON(value) ==
    LET all == [i \in 1..Len(value.subnets) |-> subnetUnmarshalJSON(value.subnets[i])]
        bad == {i \in 1..Len(all) : all[i].err}
        stop == IF bad = {} THEN Len(all) ELSE CHOOSE i \in bad : \A k \in bad : i <= k
    IN [disableDefaultGW |-> value.disableDefaultGW, subnets |-> SubSeq(all, 1, stop)]

\* (n *network) Value(): json.Marshal(n.networkConfiguration)
Value(n) == networkConfigurationMarshalJSON(n)

\* a freshly constructed subnet: empty device names, fresh guard
NewSubnet(subnetIP, gwIP, vni) ==
    [subnetIP |-> subnetIP, gwIP |-> gwIP, vni |-> vni,
     vxlanName |-> "", brName |-> "", once |-> "fresh"]

\* a match that would not compare the mask lengths
getMatchingSubnetAnyMask(subnets, ip) ==
    IF ip.nil THEN 0
    ELSE LET hits == {i \in 1..Len(subnets) : subnets[i].subnetIP.ip = ip.ip}
         IN IF hits = {} THEN 0 ELSE CHOOSE i \in hits : \A k \in hits : i <= k

\* getMatchingSubnet: index of the first subnet with the same mask length and
\* the same address, 0 for "nil"
getMatchingSubnet(subnets, ip) ==
    IF ip.nil THEN 0
    ELSE LET hits == {i \in 1..Len(subnets) :
                         /\ subnets[i].subnetIP.len = ip.len
                         /\ subnets[i].subnetIP.ip = ip.ip}
         IN IF hits = {} THEN 0 ELSE CHOOSE i \in hits : \A k \in hits : i <= k

\* the loop of SetValue over the decoded subnets when the network already
\* has subnets: copy the vni onto the matching subnet
RECURSIVE MergeVnis(_, _, _)
MergeVnis(subnets, decoded, k) ==
    IF k > Len(decoded) THEN subnets
    ELSE LET m == getMatchingSubnet(subnets, decoded[k].subnetIP)
             next == IF m = 0 THEN subnets
                     ELSE [subnets EXCEPT ![m].vni = decoded[k].vni]
         IN MergeVnis(next, decoded, k + 1)

\* (n *network) SetValue(value): the value is decoded once into nc, which is
\* then installed (new network) or merged (network with subnets)
SetValue(n, value) ==
    LET newNet == Len(n.subnets) = 0
        install(nc) ==
            IF newNet
            THEN [n EXCEPT !.disableDefaultGW = nc.disableDefaultGW,
                           !.subnets = [i \in 1..Len(nc.subnets) |->
                               NewSubnet(nc.subnets[i].subnetIP, nc.subnets[i].gwIP,
                                         nc.subnets[i].vni)]]
            ELSE [n EXCEPT !.disableDefaultGW = nc.disableDefaultGW,
                           !.subnets = MergeVnis(n.subnets, nc.subnets, 1)]
    IN CHOOSE r \in {install(nc) : nc \in {networkConfigurationUnmarshalJSON(value)}} : TRUE

\* IPNet.Contains(ip): the address lies in the network of the mask
Contains(net, ip) ==
    (net.ip \div 2^(AddrBits - net.len)) = (ip \div 2^(AddrBits - net.len))

\* a scan that would not compare the mask lengths
getSubnetforIPAnyMask(subnets, ip, k) ==
    LET hits == {i \in k..Len(subnets) : Contains(subnets[i].subnetIP, ip.ip)}
    IN IF hits = {} THEN 0 ELSE CHOOSE i \in hits : \A j \in hits : i <= j

\* getSubnetforIP(ip): the scan from subnet k on; the index of the subnet
\* returned, 0 for nil, -1 when the scan faults: lines 605 and 606 read the
\* Mask field through s.subnetIP and through ip, and ip is not tested for nil
RECURSIVE getSubnetforIP(_, _, _)
getSubnetforIP(subnets, ip, k) ==
    IF k > Len(subnets) THEN 0
    ELSE IF subnets[k].subnetIP.nil \/ ip.nil THEN -1
    ELSE IF subnets[k].subnetIP.len # ip.len THEN getSubnetforIP(subnets, ip, k + 1)
    ELSE IF Contains(subnets[k].subnetIP, ip.ip) THEN k
    ELSE getSubnetforIP(subnets, ip, k + 1)

\* (n *network) SetIndex(index)
SetIndex(n, index) == [n EXCEPT !.dbIndex = index, !.dbExists = TRUE]

(* ----------------------------- datastore ------------------------------- *)
\* GetObject succeeds iff the key is present: SetValue, then SetIndex
GetObjectInto(n, entry) == SetIndex(SetValue(n, entry.val), entry.idx)

\* PutObjectAtomic: with Exists() the put succeeds iff the stored index is
\* the object's Index(); without, iff the key is absent
PutWouldSucceed(n, entry) ==
    IF n.dbExists THEN entry.exists /\ entry.idx = n.dbIndex
    ELSE ~entry.exists

NextIndex(entry) == IF entry.exists THEN entry.idx + 1 ELSE 1

PutEntry(n, entry) == [exists |-> TRUE, idx |-> NextIndex(entry), val |-> Value(n)]

\* DeleteObjectAtomic outcome for an object with index n.dbIndex
DeleteOutcome(n, entry) ==
    IF ~entry.exists THEN "KeyNotFound"
    ELSE IF entry.idx # n.dbIndex THEN "KeyModified"
    ELSE "ok"

(* ------------------------ IdentifierAllocator -------------------------- *)
\* the ids GetID may hand out: any id not in use
FreeIds == VniIds \ allocated

\* Release(id): the id is no longer in use
Release(ids, id) == ids \ {id}

(* ----------------------- obtainVxlanID (per caller) -------------------- *)
NetId == "n1"
Net(c) == networks[HostOf(c)][NetId]
\* the vni the store entry holds for subnet s (0 without an entry)
EntryVni(entry, s) ==
    IF entry.exists /\ s <= Len(entry.val.subnets)
    THEN entry.val.subnets[s].vni ELSE 0

StoreVni(s) == EntryVni(store[NetId], s)

\* n.setVxlanID(s, vni)
setVxlanID(c, vni) ==
    [networks EXCEPT ![HostOf(c)][NetId].subnets[sub[c]].vni = vni]

\* the call returns: record the outcome and what the caller's host and the
\* store hold for the subnet at that moment
Return(c, outcome, nets, st) ==
    /\ pc' = [pc EXCEPT ![c] = "done"]
    /\ ret' = [ret EXCEPT ![c] = outcome]
    /\ retVni' = [retVni EXCEPT ![c] = nets[HostOf(c)][NetId].subnets[sub[c]].vni]
    /\ retStoreVni' = [retStoreVni EXCEPT ![c] = EntryVni(st[NetId], sub[c])]

Goto(c, label) ==
    /\ pc' = [pc EXCEPT ![c] = label]
    /\ UNCHANGED <<ret, retVni, retStoreVni>>

\* a join calls obtainVxlanID(s) for a subnet of the registered network
ObtainCall(c) ==
    /\ pc[c] = "idle"
    /\ Net(c).present
    /\ \E s \in 1..Len(Net(c).subnets) :
          sub' = [sub EXCEPT ![c] = s]
    /\ Goto(c, "o_check")
    /\ UNCHANGED <<store, allocated, networks, vxlanID, putErr, handedOut, regOps, lastOp, del, joinVars, codec, miss>>

\* line 567: if s.vni != 0 { return nil }
ObtainCheck(c) ==
    /\ pc[c] = "o_check"
    /\ IF Net(c).subnets[sub[c]].vni # 0
       THEN Return(c, "ok", networks, store)
       ELSE Goto(c, "o_get")
    /\ UNCHANGED <<store, allocated, networks, sub, vxlanID, putErr, handedOut, regOps, lastOp, del, joinVars, codec, miss>>

\* line 576: store.GetObject(key, n), which may fail
ObtainGet(c) ==
    /\ pc[c] = "o_get"
    /\ \/ /\ store[NetId].exists
          /\ networks' = [networks EXCEPT
                 ![HostOf(c)][NetId] = GetObjectInto(Net(c), store[NetId])]
          /\ Goto(c, "o_test")
       \/ /\ UNCHANGED networks
          /\ Return(c, "err_get", networks, store)
    /\ UNCHANGED <<store, allocated, sub, vxlanID, putErr, handedOut, regOps, lastOp, del, joinVars, codec, miss>>

\* line 580: if s.vni == 0 { ... } return nil
ObtainTest(c) ==
    /\ pc[c] = "o_test"
    /\ IF Net(c).subnets[sub[c]].vni = 0
       THEN Goto(c, "o_getid")
       ELSE Return(c, "ok", networks, store)
    /\ UNCHANGED <<store, allocated, networks, sub, vxlanID, putErr, handedOut, regOps, lastOp, del, joinVars, codec, miss>>

\* line 581: vxlanIdm.GetID()
ObtainGetID(c) ==
    /\ pc[c] = "o_getid"
    /\ IF FreeIds = {}
       THEN /\ Return(c, "err_exhausted", networks, store)
            /\ UNCHANGED <<allocated, vxlanID, handedOut>>
       ELSE \E id \in FreeIds :
               /\ allocated' = allocated \cup {id}
               /\ vxlanID' = [vxlanID EXCEPT ![c] = id]
               /\ handedOut' = handedOut \cup {id}
               /\ Goto(c, "o_set")
    /\ UNCHANGED <<store, networks, sub, putErr, regOps, lastOp, del, joinVars, codec, miss>>

\* line 586: n.setVxlanID(s, uint32(vxlanID))
ObtainSet(c) ==
    /\ pc[c] = "o_set"
    /\ networks' = setVxlanID(c, vxlanID[c])
    /\ Goto(c, "o_put")
    /\ UNCHANGED <<store, allocated, sub, vxlanID, putErr, handedOut, regOps, lastOp, del, joinVars, codec, miss>>

\* line 587: n.writeToStore(): PutObjectAtomic(n); it fails with KeyModified
\* when the compare fails, and may fail with a backend error
writeToStore(c) ==
    /\ pc[c] = "o_put"
    /\ \/ /\ PutWouldSucceed(Net(c), store[NetId])
          /\ store' = [store EXCEPT ![NetId] = PutEntry(Net(c), store[NetId])]
          /\ networks' = [networks EXCEPT
                 ![HostOf(c)][NetId] = SetIndex(Net(c), NextIndex(store[NetId]))]
          /\ Return(c, "ok", networks', store')
          /\ UNCHANGED putErr
       \/ /\ ~PutWouldSucceed(Net(c), store[NetId])
          /\ putErr' = [putErr EXCEPT ![c] = "KeyModified"]
          /\ Goto(c, "o_release")
          /\ UNCHANGED <<store, networks>>
       \/ /\ putErr' = [putErr EXCEPT ![c] = "backend"]
          /\ Goto(c, "o_release")
          /\ UNCHANGED <<store, networks>>
    /\ UNCHANGED <<allocated, sub, vxlanID, handedOut, regOps, lastOp, del, joinVars, codec, miss>>

\* line 588: vxlanIdm.Release(uint64(n.vxlanID(s)))
ObtainRelease(c) ==
    /\ pc[c] = "o_release"
    /\ allocated' = Release(allocated, Net(c).subnets[sub[c]].vni)
    /\ Goto(c, "o_reset")
    /\ UNCHANGED <<store, networks, sub, vxlanID, putErr, handedOut, regOps, lastOp, del, joinVars, codec, miss>>

\* a loop that would never restart
RetryOnNever(err) == FALSE

\* line 590: if err == datastore.ErrKeyModified { continue }
RetryOn(err) == err = "KeyModified"

\* lines 589-593: n.setVxlanID(s, 0); KeyModified restarts the loop, any
\* other error is returned
ObtainReset(c) ==
    /\ pc[c] = "o_reset"
    /\ networks' = setVxlanID(c, 0)
    /\ IF RetryOn(putErr[c])
       THEN Goto(c, "o_get")
       ELSE Return(c, "err_put", networks', store)
    /\ UNCHANGED <<store, allocated, sub, vxlanID, putErr, handedOut, regOps, lastOp, del, joinVars, codec, miss>>

obtainVxlanID(c) ==
    \/ ObtainCall(c)
    \/ ObtainCheck(c)
    \/ ObtainGet(c)
    \/ ObtainTest(c)
    \/ ObtainGetID(c)
    \/ ObtainSet(c)
    \/ writeToStore(c)
    \/ ObtainRelease(c)
    \/ ObtainReset(c)

(* ------------------ specification: VNI allocation ---------------------- *)
\* a network created from two pools, persisted, and known to both hosts
CreatedSubnets(pools) ==
    [i \in 1..Len(pools) |-> NewSubnet(pools[i].Pool, pools[i].Gateway, 0)]

NewNetwork(pools) ==
    [present |-> TRUE, subnets |-> CreatedSubnets(pools),
     disableDefaultGW |-> FALSE, dbIndex |-> 0, dbExists |-> FALSE]

InitCallers ==
    /\ pc = [c \in Callers |-> "idle"]
    /\ sub = [c \in Callers |-> 0]
    /\ vxlanID = [c \in Callers |-> 0]
    /\ putErr = [c \in Callers |-> "none"]
    /\ ret = [c \in Callers |-> "none"]
    /\ retVni = [c \in Callers |-> 0]
    /\ retStoreVni = [c \in Callers |-> 0]
    /\ handedOut = {}

\* no codec call
CodecIdle == [pc |-> "idle"]

\* no batch of messages being handled
MissIdle == [pc |-> "idle"]

FreshGuard == [st |-> "fresh", calls |-> 0, result |-> "none"]

\* a network with NSubnets subnets nobody has joined yet: fresh guards, no
\* sandbox, no devices
InitJoinVars ==
    /\ jpc = [p \in Procs |-> "idle"]
    /\ jsub = [p \in Procs |-> 0]
    /\ jg = [p \in Procs |-> 0]
    /\ jsb = [p \in Procs |-> 0]
    /\ jret = [p \in Procs |-> [g |-> 0, err |-> "none", same |-> FALSE]]
    /\ joinCnt = 0
    /\ once = 1
    /\ guards = [g \in 1..(1 + NSubnets) |-> FreshGuard]
    /\ initErr = "nil"
    /\ initEpoch = 0
    /\ watchers = <<>>
    /\ sbox = 0
    /\ sOnce = [s \in Subnets |-> 1 + s]
    /\ sInitErr = [s \in Subnets |-> "nil"]
    /\ vxlanName = [s \in Subnets |-> FALSE]
    /\ brName = [s \in Subnets |-> FALSE]
    /\ hostMode = FALSE
    /\ hostModeDone = FALSE
    /\ probe = "none"
    /\ chain = FALSE
    /\ filters = {}
    /\ sandboxes = <<>>
    /\ vxlanDev = {}
    /\ panicked = FALSE
    /\ strayLeave = FALSE

InitVni ==
    /\ store = [id \in NetIds |->
                   PutEntry(NewNetwork(<<PoolA, PoolB>>), NoEntry)]
    /\ allocated = {}
    /\ networks = [h \in Hosts |-> [id \in NetIds |->
                      SetIndex(NewNetwork(<<PoolA, PoolB>>), 1)]]
    /\ InitCallers
    /\ regOps = 0
    /\ lastOp = NoOp
    /\ del = [h \in Hosts |-> NoDel]
    /\ InitJoinVars
    /\ codec = CodecIdle /\ miss = MissIdle

NextVni == \E c \in Callers : obtainVxlanID(c)

SpecVni == InitVni /\ [][NextVni]_vars

\* the same calls, each goroutine being scheduled as long as it has a step
SpecVniLive ==
    /\ InitVni
    /\ [][NextVni]_vars
    /\ \A c \in Callers : WF_vars(obtainVxlanID(c))

(* ------------------------- claims: VNI allocation ---------------------- *)
AllReturned == \A c \in Callers : pc[c] \in {"idle", "done"}

\* C1: once the persisted network value holds a non-zero vni for a subnet, no
\* later successful atomic put replaces it with a different value while the
\* network entry exists (any hosts, any number of callers per host).
C1_AtMostOneDurableVni ==
    [][\A s \in 1..2 :
          (store[NetId].exists /\ store'[NetId].exists /\ StoreVni(s) # 0)
              => EntryVni(store'[NetId], s) = StoreVni(s)]_vars

\* C2: once every obtainVxlanID call has returned, each id GetID handed out
\* is either the vni persisted for a subnet or released to the allocator.
C2_NoVniLeak ==
    AllReturned =>
        \A id \in handedOut :
            \/ \E s \in 1..2 : StoreVni(s) = id
            \/ id \notin allocated

\* C3: whenever obtainVxlanID returns success on a host, the host's in-memory
\* vni of the subnet is non-zero and equals the vni persisted for the subnet
\* at that moment.
C3_SuccessMeansPersistedVni ==
    \A c \in Callers :
        ret[c] = "ok" => /\ retVni[c] # 0
                         /\ retVni[c] = retStoreVni[c]

(* ============================ the registry ============================= *)
\* one operation at a time on a host's driver in this specification: no
\* obtainVxlanID call and no DeleteNetwork is in progress on host h
HostIdle(h) ==
    /\ ~del[h].present
    /\ \A c \in Callers : HostOf(c) = h => pc[c] \in {"idle", "done"}

RegOp(h) ==
    /\ regOps < MaxRegOps
    /\ HostIdle(h)
    /\ regOps' = regOps + 1

\* d.addNetwork(n)
addNetwork(nets, h, id, n) == [nets EXCEPT ![h][id] = n]

\* d.deleteNetwork(nid)
deleteNetwork(nets, h, id) == [nets EXCEPT ![h][id] = NoNet]

\* a CreateNetwork that would skip the first pool
BuildNetworkSkipsPool(pools, disableGW) ==
    [NewNetwork(IF Len(pools) > 0 THEN Tail(pools) ELSE pools)
        EXCEPT !.disableDefaultGW = disableGW]

\* lines 77-93: the network CreateNetwork builds from the options and pools
BuildNetwork(pools, disableGW) ==
    [NewNetwork(pools) EXCEPT !.disableDefaultGW = disableGW]

\* CreateNetwork(id, option, ipV4Data, ...): lines 66-102
CreateNetwork(h, id, pools, disableGW) ==
    /\ RegOp(h)
    /\ LET n == BuildNetwork(pools, disableGW)
           done(outcome) ==
               lastOp' = [NoOp EXCEPT !.op = "create", !.host = h, !.id = id,
                                      !.pools = pools, !.outcome = outcome]
       IN IF id = ""
          THEN /\ done("err_invalid_id")
               /\ UNCHANGED <<store, networks>>
          ELSE \/ /\ done("err_configure")
                  /\ UNCHANGED <<store, networks>>
               \/ /\ ~PutWouldSucceed(n, store[id])
                  /\ done("err_store")
                  /\ UNCHANGED <<store, networks>>
               \/ /\ done("err_store")
                  /\ UNCHANGED <<store, networks>>
               \/ /\ PutWouldSucceed(n, store[id])
                  /\ store' = [store EXCEPT ![id] = PutEntry(n, store[id])]
                  /\ networks' = addNetwork(networks, h, id,
                                            SetIndex(n, NextIndex(store[id])))
                  /\ done("ok")
    /\ UNCHANGED <<allocated, pc, sub, vxlanID, putErr, ret, handedOut, retVni,
                   retStoreVni, del, joinVars, codec, miss>>

\* getNetworkFromStore(nid): a network with only its id, filled by GetObject
getNetworkFromStore(entry) ==
    IF entry.exists
    THEN GetObjectInto([present |-> TRUE, subnets |-> <<>>, disableDefaultGW |-> FALSE,
                        dbIndex |-> 0, dbExists |-> FALSE], entry)
    ELSE NoNet

\* d.network(nid), lines 391-408: the registered network, or on a miss the
\* one hydrated from the store, which is then registered
network(nets, h, id, entry) ==
    IF nets[h][id].present THEN nets
    ELSE IF getNetworkFromStore(entry).present
    THEN addNetwork(nets, h, id, getNetworkFromStore(entry))
    ELSE nets

\* Lookup(id): d.network(nid) and whether it found a network
Lookup(h, id) ==
    /\ RegOp(h)
    /\ networks' = network(networks, h, id, store[id])
    /\ lastOp' = [NoOp EXCEPT !.op = "lookup", !.host = h, !.id = id,
                     !.wasReg = networks[h][id].present,
                     !.outcome = IF networks'[h][id].present THEN "found" ELSE "notfound"]
    /\ UNCHANGED <<store, allocated, pc, sub, vxlanID, putErr, ret, handedOut, retVni,
                   retStoreVni, del, joinVars, codec, miss>>

\* DeleteNetwork(nid), lines 104-114: find the network, drop it from the
\* registry; releaseVxlanID follows
DeleteNetwork(h, id) ==
    /\ RegOp(h)
    /\ IF id = ""
       THEN /\ lastOp' = [NoOp EXCEPT !.op = "delete", !.host = h, !.id = id,
                                      !.outcome = "err_invalid_id"]
            /\ UNCHANGED <<networks, del>>
       ELSE LET found == network(networks, h, id, store[id])
            IN IF ~found[h][id].present
               THEN /\ lastOp' = [NoOp EXCEPT !.op = "delete", !.host = h, !.id = id,
                                              !.outcome = "err_notfound"]
                    /\ UNCHANGED <<networks, del>>
               ELSE /\ del' = [del EXCEPT ![h] =
                                [present |-> TRUE, id |-> id, net |-> found[h][id],
                                 wasReg |-> networks[h][id].present]]
                    /\ networks' = deleteNetwork(found, h, id)
                    /\ UNCHANGED lastOp
    /\ UNCHANGED <<store, allocated, pc, sub, vxlanID, putErr, ret, handedOut, retVni,
                   retStoreVni, joinVars, codec, miss>>

\* the vnis of a network's subnets
Vnis(n) == {n.subnets[i].vni : i \in 1..Len(n.subnets)}

\* a releaseVxlanID that would leave the vnis in memory
ZeroVnisKept(n) == n

\* lines 558-561: every subnet's vni released and set to 0
ZeroVnis(n) == [n EXCEPT !.subnets = [i \in 1..Len(n.subnets) |->
                                         [n.subnets[i] EXCEPT !.vni = 0]]]

\* line 549: the errors of DeleteObjectAtomic releaseVxlanID takes for "the
\* key has been removed by some other instance" and returns nil on
SwallowedDeleteError(err) == err \in {"KeyModified", "KeyNotFound"}

\* lines 558-561: Release(vni) for every subnet
ReleaseAll(ids, n) == ids \ Vnis(n)

\* n.releaseVxlanID(), lines 539-563, ending the DeleteNetwork of host h;
\* DeleteObjectAtomic may also fail with a backend error
releaseVxlanID(h) ==
    /\ del[h].present
    /\ LET n == del[h].net
           id == del[h].id
           done(res, delOutcome, n2) ==
               lastOp' = [NoOp EXCEPT !.op = "delete", !.host = h, !.id = id,
                             !.outcome = res, !.wasReg = del[h].wasReg,
                             !.delOutcome = delOutcome, !.nsub = Len(n.subnets),
                             !.vnisBefore = Vnis(n), !.vnisAfter = Vnis(n2)]
       IN IF Len(n.subnets) = 0
          THEN /\ done("ok", "skipped", n)
               /\ UNCHANGED <<store, allocated>>
          ELSE \E err \in {DeleteOutcome(n, store[id]), "backend"} :
                  /\ store' = IF err = "ok" THEN [store EXCEPT ![id] = NoEntry]
                              ELSE store
                  /\ IF err = "ok"
                     THEN /\ allocated' = ReleaseAll(allocated, n)
                          /\ done("ok", err, ZeroVnis(n))
                     ELSE /\ UNCHANGED allocated
                          /\ done(IF SwallowedDeleteError(err) THEN "ok" ELSE "err_store",
                                  err, n)
    /\ del' = [del EXCEPT ![h] = NoDel]
    /\ UNCHANGED <<networks, pc, sub, vxlanID, putErr, ret, handedOut, retVni,
                   retStoreVni, regOps, joinVars, codec, miss>>

(* ======================= join / leave state machine ==================== *)
\* the joiner moves on; a process that died of a fault takes no step, and
\* joins and leaves touch neither the store nor the allocator
JGoto(p, label) ==
    /\ ~panicked
    /\ jpc' = [jpc EXCEPT ![p] = label]
    /\ UNCHANGED <<storeVars, codec, miss>>

\* an incEndpointCount that would not count
IncJoinCntSkipped(cnt) == cnt

\* line 122: n.joinCnt++
IncJoinCnt(cnt) == cnt + 1

\* line 146: n.joinCnt--
DecJoinCnt(cnt) == cnt - 1

\* incEndpointCount: the first step of a join of subnet s
incEndpointCount(p) ==
    /\ jpc[p] = "idle"
    /\ \E s \in Subnets : jsub' = [jsub EXCEPT ![p] = s]
    /\ joinCnt' = IncJoinCnt(joinCnt)
    /\ JGoto(p, "js")
    /\ UNCHANGED <<jg, jsb, jret, once, guards, initErr, initEpoch, watchers, sbox,
                   jSubn, jKern, jHist>>

\* a guard that would let a caller run the routine while it is running
OnceDoRunsAgain(p, g, runLabel, waitLabel, doneLabel) ==
    /\ jg' = [jg EXCEPT ![p] = g]
    /\ IF guards[g].st = "done"
       THEN /\ JGoto(p, doneLabel)
            /\ UNCHANGED guards
       ELSE /\ JGoto(p, runLabel)
            /\ guards' = [guards EXCEPT ![g].st = "running", ![g].calls = @ + 1]

\* sync.Once.Do: who finds the guard fresh runs the routine, who finds it
\* running waits for it, who finds it done goes on
OnceDo(p, g, runLabel, waitLabel, doneLabel) ==
    /\ jg' = [jg EXCEPT ![p] = g]
    /\ IF guards[g].st = "done"
       THEN /\ JGoto(p, doneLabel)
            /\ UNCHANGED guards
       ELSE IF guards[g].st = "fresh"
       THEN /\ JGoto(p, runLabel)
            /\ guards' = [guards EXCEPT ![g].st = "running", ![g].calls = @ + 1]
       ELSE /\ JGoto(p, waitLabel)
            /\ UNCHANGED guards

\* the routine of guard g has returned e: Do marks the guard done
OnceDone(g, e) == [guards EXCEPT ![g].st = "done", ![g].result = e]

\* line 128: n.once.Do(...)
joinSandbox(p) ==
    /\ jpc[p] = "js"
    /\ OnceDo(p, once, "is_epoch", "js_wait", "js_ret")
    /\ UNCHANGED <<jsub, jsb, jret, joinCnt, once, initErr, initEpoch, watchers, sbox,
                   jSubn, jKern, jHist>>

\* a caller blocked in Do goes on when the routine has finished
JoinSandboxWait(p) ==
    /\ jpc[p] = "js_wait"
    /\ guards[jg[p]].st = "done"
    /\ JGoto(p, "js_ret")
    /\ UNCHANGED <<jsub, jg, jsb, jret, jNet, jSubn, jKern, jHist>>

\* line 134: return n.initErr
JoinSandboxReturn(p) ==
    /\ jpc[p] = "js_ret"
    /\ jret' = [jret EXCEPT ![p] = [g |-> jg[p], err |-> initErr, same |-> once = jg[p]]]
    /\ JGoto(p, IF initErr = "nil" THEN "jss" ELSE "joined_fail")
    /\ UNCHANGED <<jsub, jg, jsb, jNet, jSubn, jKern, jHist>>

\* line 131: n.initErr = n.initSandbox(), with initSandbox returning e
InitSandboxReturns(p, e) ==
    /\ initErr' = e
    /\ guards' = OnceDone(jg[p], e)
    /\ JGoto(p, "js_ret")

\* an initSandbox that would not count its entries
NextEpochSame(e) == e

\* line 306: n.initEpoch++
NextEpoch(e) == e + 1

\* lines 305-307: n.initEpoch++ under the lock
InitSandboxEpoch(p) ==
    /\ jpc[p] = "is_epoch"
    /\ initEpoch' = NextEpoch(initEpoch)
    /\ JGoto(p, "is_hostmode")
    /\ UNCHANGED watchers
    /\ UNCHANGED <<jsub, jg, jsb, jret, joinCnt, once, guards, initErr, sbox,
                   jSubn, jKern, jHist>>

\* how a run of setHostMode can end: the environment variable is set
\* ("env"), one of its steps fails (creating the probe device, opening the
\* namespace file, looking the device up, moving it), or all succeed ("ok")
ProbeResults == {"env", "create", "open", "lookup", "move", "ok"}

\* a detector that would fall back to host mode on every failure
setHostModeOnAnyFailure(pr) == pr # "ok"

\* setHostMode(), lines 197-232: the value it leaves in hostMode (false
\* before): true at line 199 and at line 230, the returns of lines 206, 215
\* and 224 leave it false
setHostMode(pr) ==
    IF pr = "env" THEN TRUE
    ELSE IF pr = "create" THEN FALSE
    ELSE IF pr = "open" THEN FALSE
    ELSE IF pr = "lookup" THEN FALSE
    ELSE pr = "move"

\* line 309: hostModeOnce.Do(setHostMode): the first run decides hostMode
InitSandboxHostMode(p) ==
    /\ jpc[p] = "is_hostmode"
    /\ IF hostModeDone
       THEN UNCHANGED <<hostMode, hostModeDone, probe>>
       ELSE /\ probe' \in ProbeResults
            /\ hostMode' = setHostMode(probe')
            /\ hostModeDone' = TRUE
    /\ JGoto(p, "is_chain")
    /\ UNCHANGED <<jsub, jg, jsb, jret, jNet, jSubn, chain, filters, sandboxes,
                   vxlanDev, jHist>>

\* lines 311-315: in host mode addNetworkChain, which may fail
InitSandboxChain(p) ==
    /\ jpc[p] = "is_chain"
    /\ \/ /\ ~hostMode
          /\ JGoto(p, "is_newsb")
          /\ UNCHANGED <<chain, guards, initErr>>
       \/ /\ hostMode
          /\ chain' = TRUE
          /\ JGoto(p, "is_newsb")
          /\ UNCHANGED <<guards, initErr>>
       \/ /\ hostMode
          /\ InitSandboxReturns(p, "err")
          /\ UNCHANGED chain
    /\ UNCHANGED <<jsub, jg, jsb, jret, joinCnt, once, initEpoch, watchers, sbox, jSubn,
                   hostMode, hostModeDone, probe, filters, sandboxes, vxlanDev, jHist>>

\* lines 317-321: osl.NewSandbox(key of n.initEpoch), which may fail
InitSandboxNew(p) ==
    /\ jpc[p] = "is_newsb"
    /\ \/ /\ sandboxes' = Append(sandboxes,
                 [key |-> initEpoch, alive |-> TRUE, brs |-> {}, vxs |-> {}])
          /\ jsb' = [jsb EXCEPT ![p] = Len(sandboxes) + 1]
          /\ JGoto(p, "is_setsb")
          /\ UNCHANGED <<guards, initErr>>
       \/ /\ InitSandboxReturns(p, "err")
          /\ UNCHANGED <<sandboxes, jsb>>
    /\ UNCHANGED <<jsub, jg, jret, joinCnt, once, initEpoch, watchers, sbox, jSubn,
                   hostMode, hostModeDone, probe, chain, filters, vxlanDev, jHist>>

\* line 323: n.setSandbox(sbox)
setSandbox(p) ==
    /\ jpc[p] = "is_setsb"
    /\ sbox' = jsb[p]
    /\ JGoto(p, "is_watch")
    /\ UNCHANGED <<jsub, jg, jsb, jret, joinCnt, once, guards, initErr, initEpoch, watchers,
                   jSubn, jKern, jHist>>

\* lines 325-336: replay the peers; nl.Subscribe inside the sandbox, which
\* may fail and then leaves nlSock nil, its error dropped; go watchMiss(nlSock);
\* return nil
InitSandboxWatch(p) ==
    /\ jpc[p] = "is_watch"
    /\ \E sock \in {"open", "nil"} :
          watchers' = Append(watchers, [sb |-> jsb[p], sock |-> sock, st |-> "receive"])
    /\ InitSandboxReturns(p, "nil")
    /\ UNCHANGED <<jsub, jg, jsb, jret, joinCnt, once, initEpoch, sbox, jSubn,
                   jKern, jHist>>

initSandbox(p) ==
    \/ InitSandboxEpoch(p)
    \/ InitSandboxHostMode(p)
    \/ InitSandboxChain(p)
    \/ InitSandboxNew(p)
    \/ setSandbox(p)
    \/ InitSandboxWatch(p)

\* line 138: s.once.Do(...)
joinSubnetSandbox(p) ==
    /\ jpc[p] = "jss"
    /\ OnceDo(p, sOnce[jsub[p]], "iss_overlap", "jss_wait", "jss_ret")
    /\ UNCHANGED <<jsub, jsb, jret, joinCnt, once, initErr, initEpoch, watchers, sbox,
                   jSubn, jKern, jHist>>

JoinSubnetWait(p) ==
    /\ jpc[p] = "jss_wait"
    /\ guards[jg[p]].st = "done"
    /\ JGoto(p, "jss_ret")
    /\ UNCHANGED <<jsub, jg, jsb, jret, jNet, jSubn, jKern, jHist>>

\* line 141: return s.initErr; the join is over, with or without an error
JoinSubnetReturn(p) ==
    /\ jpc[p] = "jss_ret"
    /\ JGoto(p, IF sInitErr[jsub[p]] = "nil" THEN "joined" ELSE "joined_fail")
    /\ UNCHANGED <<jsub, jg, jsb, jret, jNet, jSubn, jKern, jHist>>

\* line 139: s.initErr = n.initSubnetSandbox(s), with the routine returning e
InitSubnetReturns(p, e) ==
    /\ sInitErr' = [sInitErr EXCEPT ![jsub[p]] = e]
    /\ guards' = OnceDone(jg[p], e)
    /\ JGoto(p, "jss_ret")

\* lines 261-263: in host mode a subnet overlapping the host's routes or
\* nameservers is rejected
InitSubnetOverlap(p) ==
    /\ jpc[p] = "iss_overlap"
    /\ \/ /\ JGoto(p, "iss_sbox")
          /\ UNCHANGED <<guards, sInitErr>>
       \/ /\ hostMode
          /\ InitSubnetReturns(p, "err")
    /\ UNCHANGED <<jsub, jg, jsb, jret, joinCnt, once, initErr, initEpoch, watchers, sbox,
                   sOnce, vxlanName, brName, jKern, jHist>>

\* line 267: sbox := n.sandbox()
InitSubnetSandboxRead(p) ==
    /\ jpc[p] = "iss_sbox"
    /\ jsb' = [jsb EXCEPT ![p] = sbox]
    /\ JGoto(p, "iss_bridge")
    /\ UNCHANGED <<jsub, jg, jret, jNet, jSubn, jKern, jHist>>

\* lines 269-273: sbox.AddInterface(brName, "br", ...): a nil sbox faults;
\* the call may fail, and fails on a destroyed sandbox
InitSubnetBridge(p) ==
    /\ jpc[p] = "iss_bridge"
    /\ IF jsb[p] = 0
       THEN /\ panicked' = TRUE
            /\ JGoto(p, "panic")
            /\ UNCHANGED <<sandboxes, guards, sInitErr>>
       ELSE /\ UNCHANGED panicked
            /\ \/ /\ sandboxes[jsb[p]].alive
                  /\ sandboxes' = [sandboxes EXCEPT ![jsb[p]].brs = @ \cup {jsub[p]}]
                  /\ JGoto(p, "iss_vxlan")
                  /\ UNCHANGED <<guards, sInitErr>>
               \/ /\ InitSubnetReturns(p, "err")
                  /\ UNCHANGED sandboxes
    /\ UNCHANGED <<jsub, jg, jsb, jret, joinCnt, once, initErr, initEpoch, watchers, sbox,
                   sOnce, vxlanName, brName, hostMode, hostModeDone, probe, chain, filters,
                   vxlanDev, strayLeave>>

\* deleteVxlan(name): the device of the subnet no longer exists
deleteVxlan(devs, s) == devs \ {s}

\* lines 275-283: deleteVxlan(vxlanName), then createVxlan, which may fail
InitSubnetVxlan(p) ==
    /\ jpc[p] = "iss_vxlan"
    /\ \/ /\ vxlanDev' = deleteVxlan(vxlanDev, jsub[p]) \cup {jsub[p]}
          /\ JGoto(p, "iss_attach")
          /\ UNCHANGED <<guards, sInitErr>>
       \/ /\ vxlanDev' = deleteVxlan(vxlanDev, jsub[p])
          /\ InitSubnetReturns(p, "err")
    /\ sandboxes' = [k \in 1..Len(sandboxes) |->
                        [sandboxes[k] EXCEPT !.vxs = @ \ {jsub[p]}]]
    /\ UNCHANGED <<jsub, jg, jsb, jret, joinCnt, once, initErr, initEpoch, watchers, sbox,
                   sOnce, vxlanName, brName, hostMode, hostModeDone, probe, chain, filters,
                   jHist>>

\* lines 285-288: sbox.AddInterface(vxlanName, "vxlan", Master(brName))
InitSubnetAttach(p) ==
    /\ jpc[p] = "iss_attach"
    /\ \/ /\ sandboxes[jsb[p]].alive
          /\ jsub[p] \in vxlanDev
          /\ sandboxes' = [sandboxes EXCEPT ![jsb[p]].vxs = @ \cup {jsub[p]}]
          /\ JGoto(p, "iss_filters")
          /\ UNCHANGED <<guards, sInitErr>>
       \/ /\ InitSubnetReturns(p, "err")
          /\ UNCHANGED sandboxes
    /\ UNCHANGED <<jsub, jg, jsb, jret, joinCnt, once, initErr, initEpoch, watchers, sbox,
                   sOnce, vxlanName, brName, hostMode, hostModeDone, probe, chain, filters,
                   vxlanDev, jHist>>

\* lines 290-294: in host mode addFilters, which may fail
InitSubnetFilters(p) ==
    /\ jpc[p] = "iss_filters"
    /\ \/ /\ ~hostMode
          /\ JGoto(p, "iss_names")
          /\ UNCHANGED <<filters, guards, sInitErr>>
       \/ /\ hostMode
          /\ filters' = filters \cup {jsub[p]}
          /\ JGoto(p, "iss_names")
          /\ UNCHANGED <<guards, sInitErr>>
       \/ /\ hostMode
          /\ InitSubnetReturns(p, "err")
          /\ UNCHANGED filters
    /\ UNCHANGED <<jsub, jg, jsb, jret, joinCnt, once, initErr, initEpoch, watchers, sbox,
                   sOnce, vxlanName, brName, hostMode, hostModeDone, probe, chain, sandboxes,
                   vxlanDev, jHist>>

\* lines 296-301: record the names under the lock, return nil
InitSubnetNames(p) ==
    /\ jpc[p] = "iss_names"
    /\ vxlanName' = [vxlanName EXCEPT ![jsub[p]] = TRUE]
    /\ brName' = [brName EXCEPT ![jsub[p]] = TRUE]
    /\ InitSubnetReturns(p, "nil")
    /\ UNCHANGED <<jsub, jg, jsb, jret, joinCnt, once, initErr, initEpoch, watchers, sbox,
                   sOnce, jKern, jHist>>

initSubnetSandbox(p) ==
    \/ InitSubnetOverlap(p)
    \/ InitSubnetSandboxRead(p)
    \/ InitSubnetBridge(p)
    \/ InitSubnetVxlan(p)
    \/ InitSubnetAttach(p)
    \/ InitSubnetFilters(p)
    \/ InitSubnetNames(p)

\* lines 145-159: under the lock joinCnt--; at 0 every guard is replaced by a
\* fresh one before destroySandbox is called
LeaveLocked(p) ==
    /\ joinCnt' = DecJoinCnt(joinCnt)
    /\ IF joinCnt' # 0
       THEN /\ JGoto(p, "done")
            /\ UNCHANGED <<once, sOnce, guards>>
       ELSE /\ once' = Len(guards) + 1
            /\ sOnce' = [s \in Subnets |-> Len(guards) + 1 + s]
            /\ guards' = guards \o [g \in 1..(1 + NSubnets) |-> FreshGuard]
            /\ JGoto(p, "ds_read")

\* leaveSandbox, called by a joiner whose join is over
leaveSandbox(p) ==
    /\ jpc[p] \in {"joined", "joined_fail"}
    /\ LeaveLocked(p)
    /\ UNCHANGED <<jsub, jg, jsb, jret, initErr, initEpoch, watchers, sbox, sInitErr,
                   vxlanName, brName, jKern, jHist>>

\* line 165: sbox := n.sandbox(); nothing to do when it is nil
DestroySandboxRead(p) ==
    /\ jpc[p] = "ds_read"
    /\ jsb' = [jsb EXCEPT ![p] = sbox]
    /\ JGoto(p, IF sbox = 0 THEN "done" ELSE "ds_ifaces")
    /\ UNCHANGED <<jsub, jg, jret, jNet, jSubn, jKern, jHist>>

\* lines 167-169: remove every interface the sandbox reports
DestroySandboxIfaces(p) ==
    /\ jpc[p] = "ds_ifaces"
    /\ sandboxes' = [sandboxes EXCEPT ![jsb[p]].brs = {}, ![jsb[p]].vxs = {}]
    /\ JGoto(p, "ds_subnets")
    /\ UNCHANGED <<jsub, jg, jsb, jret, jNet, jSubn, hostMode, hostModeDone, probe,
                   chain, filters, vxlanDev, jHist>>

\* the subnets whose vxlan device destroySandbox deletes: those with a name
NamedVxlans == {s \in Subnets : vxlanName[s]}

\* lines 171-184: per subnet, in host mode remove its filters; delete its
\* vxlan device if s.vxlanName is set
DestroySandboxSubnets(p) ==
    /\ jpc[p] = "ds_subnets"
    /\ filters' = IF hostMode THEN filters \ {s \in Subnets : brName[s]} ELSE filters
    /\ vxlanDev' = vxlanDev \ NamedVxlans
    /\ sandboxes' = [k \in 1..Len(sandboxes) |->
                        [sandboxes[k] EXCEPT !.vxs = @ \ NamedVxlans]]
    /\ JGoto(p, "ds_destroy")
    /\ UNCHANGED <<jsub, jg, jsb, jret, jNet, jSubn, hostMode, hostModeDone, probe,
                   chain, jHist>>

\* lines 186-192: in host mode remove the network chain; sbox.Destroy()
DestroySandboxDestroy(p) ==
    /\ jpc[p] = "ds_destroy"
    /\ chain' = IF hostMode THEN FALSE ELSE chain
    /\ vxlanDev' = vxlanDev \ sandboxes[jsb[p]].vxs
    /\ sandboxes' = [sandboxes EXCEPT
           ![jsb[p]] = [@ EXCEPT !.alive = FALSE, !.brs = {}, !.vxs = {}]]
    /\ JGoto(p, "ds_clear")
    /\ UNCHANGED <<jsub, jg, jsb, jret, jNet, jSubn, hostMode, hostModeDone, probe,
                   filters, jHist>>

\* line 193: n.setSandbox(nil)
DestroySandboxClear(p) ==
    /\ jpc[p] = "ds_clear"
    /\ sbox' = 0
    /\ JGoto(p, "done")
    /\ UNCHANGED <<jsub, jg, jsb, jret, joinCnt, once, guards, initErr, initEpoch, watchers,
                   jSubn, jKern, jHist>>

destroySandbox(p) ==
    \/ DestroySandboxRead(p)
    \/ DestroySandboxIfaces(p)
    \/ DestroySandboxSubnets(p)
    \/ DestroySandboxDestroy(p)
    \/ DestroySandboxClear(p)

\* LeaveSandbox called by a caller that has not joined
StrayLeave(p) ==
    /\ jpc[p] = "idle"
    /\ strayLeave' = TRUE
    /\ LeaveLocked(p)
    /\ UNCHANGED <<jsub, jg, jsb, jret, initErr, initEpoch, watchers, sbox, sInitErr,
                   vxlanName, brName, jKern, panicked>>

JoinStep(p) ==
    \/ incEndpointCount(p)
    \/ joinSandbox(p)
    \/ JoinSandboxWait(p)
    \/ JoinSandboxReturn(p)
    \/ initSandbox(p)
    \/ joinSubnetSandbox(p)
    \/ JoinSubnetWait(p)
    \/ JoinSubnetReturn(p)
    \/ initSubnetSandbox(p)
    \/ leaveSandbox(p)
    \/ destroySandbox(p)


(* --------------------- claims: obtainVxlanID outcomes ------------------ *)
\* C16: obtainVxlanID error outcomes: a call that finds the allocator
\* exhausted returns with the subnet's vni 0 and the store unchanged; a call
\* whose put failed with a backend error releases the id it took, resets the
\* subnet's vni to 0 and returns the error; a call never returns KeyModified.
C16_ErrorOutcomes ==
    [][\A c \in Callers :
          /\ (pc[c] = "o_getid" /\ pc'[c] = "done")
                 => (ret'[c] = "err_exhausted" /\ retVni'[c] = 0 /\ store' = store)
          /\ (pc[c] = "o_release" /\ pc'[c] = "o_reset" /\ putErr[c] = "backend")
                 => allocated' = allocated \ {vxlanID[c]}
          /\ (pc[c] = "o_reset" /\ pc'[c] = "done")
                 => (ret'[c] = "err_put" /\ putErr[c] = "backend" /\ retVni'[c] = 0)]_vars

\* C17: the retry loop terminates: from some point on no obtainVxlanID call
\* is in progress (a call that has returned stays returned, so this says that
\* every call made eventually returns), and a put that failed with
\* KeyModified is followed by a re-read of the network.
C17_RetryLoopTerminates ==
    /\ <>[]AllReturned
    /\ [][\A c \in Callers :
             (pc[c] = "o_reset" /\ pc'[c] # "o_reset" /\ putErr[c] = "KeyModified")
                 => pc'[c] = "o_get"]_vars

\* a call has returned after one of its puts failed with KeyModified
C17_Witness ==
    \E c \in Callers : pc[c] = "done" /\ putErr[c] = "KeyModified" /\ ret[c] = "ok"

(* ------------------- specification: join and leave --------------------- *)
InitStoreIdle ==
    /\ store = [id \in NetIds |->
                   PutEntry(NewNetwork(<<PoolA, PoolB>>), NoEntry)]
    /\ allocated = {}
    /\ networks = [h \in Hosts |-> [id \in NetIds |->
                      SetIndex(NewNetwork(<<PoolA, PoolB>>), 1)]]
    /\ InitCallers
    /\ regOps = 0
    /\ lastOp = NoOp
    /\ del = [h \in Hosts |-> NoDel]

InitJoin == InitStoreIdle /\ InitJoinVars /\ codec = CodecIdle /\ miss = MissIdle

NextJoin == \E p \in Procs : JoinStep(p)

SpecJoin == InitJoin /\ [][NextJoin]_vars

\* the same network when LeaveSandbox may also be called without a join
NextApi == \E p \in Procs : JoinStep(p) \/ StrayLeave(p)

SpecApi == InitJoin /\ [][NextApi]_vars

(* ------------------------- watchMiss goroutines ------------------------ *)
\* the watcher's position changes; nothing else does
WGoto(w, label) ==
    /\ ~panicked
    /\ watchers' = [watchers EXCEPT ![w].st = label]
    /\ UNCHANGED <<storeVars, codec, miss, jProc, joinCnt, once, guards, initErr, initEpoch,
                   sbox, jSubn, jKern, strayLeave>>

\* line 341: nlSock.Receive(): a nil socket faults; the receive fails once
\* the sandbox of the socket is destroyed and succeeds before
WatchReceive(w) ==
    /\ w <= Len(watchers)
    /\ watchers[w].st = "receive"
    /\ IF watchers[w].sock = "nil"
       THEN /\ ~panicked
            /\ panicked' = TRUE
            /\ UNCHANGED <<storeVars, codec, miss, jProc, jNet, jSubn, jKern, strayLeave>>
       ELSE /\ WGoto(w, IF sandboxes[watchers[w].sb].alive THEN "handle" ELSE "logged")
            /\ UNCHANGED panicked

\* lines 347-375: the messages are handled, the loop goes on
WatchHandle(w) ==
    /\ w <= Len(watchers)
    /\ watchers[w].st = "handle"
    /\ WGoto(w, "receive")
    /\ UNCHANGED panicked

\* lines 342-345: the error is logged, and continue
WatchContinue(w) ==
    /\ w <= Len(watchers)
    /\ watchers[w].st = "logged"
    /\ WGoto(w, "receive")
    /\ UNCHANGED panicked

watchMiss(w) ==
    \/ WatchReceive(w)
    \/ WatchHandle(w)
    \/ WatchContinue(w)

\* one watcher per initSandbox that got as far as starting it
WatcherIds == 1..NProcs

NextWatch ==
    \/ \E p \in Procs : JoinStep(p)
    \/ \E w \in WatcherIds : watchMiss(w)

\* every joiner and every watcher goroutine keeps being scheduled
SpecWatch ==
    /\ InitJoin
    /\ [][NextWatch]_vars
    /\ \A p \in Procs : WF_vars(JoinStep(p))
    /\ \A w \in WatcherIds : WF_vars(watchMiss(w))

(* --------------------------- claims: join / leave ---------------------- *)
\* every joiner has joined and left
AllLeft == \A p \in Procs : jpc[p] = "done"

\* no join or leave is in progress
Quiescent == \A p \in Procs : jpc[p] \in {"idle", "joined", "joined_fail", "done"}

NoDevices ==
    /\ vxlanDev = {}
    /\ \A k \in 1..Len(sandboxes) : sandboxes[k].brs = {}

\* no run of initSandbox or initSubnetSandbox has returned an error
NoInitFailed == \A g \in 1..Len(guards) : guards[g].result # "err"

\* C4: after N joins and N leaves, each leave following its own join, the
\* network has joinCnt = 0, no sandbox handle, and no vxlan or bridge device
\* of its subnets left (stated here on the runs in which no init routine
\* returned an error).
C4_CleanAfterAllLeaves ==
    (AllLeft /\ NoInitFailed) => /\ joinCnt = 0
               /\ sbox = 0
               /\ NoDevices

\* C5: when no join or leave is in progress, joinCnt = 0 iff the sandbox is
\* absent (stated here on the runs in which no init routine returned an
\* error; the claim also covers those in which initSandbox failed).
C5_CountZeroIffNoSandbox ==
    (Quiescent /\ NoInitFailed) => (joinCnt = 0 <=> sbox = 0)

\* C23: a joiner never ends up with a destroyed sandbox: when no join or
\* leave is in progress, no init routine has failed and joinCnt > 0, the
\* network holds a sandbox and that sandbox has not been destroyed.
C23_JoinedSandboxAlive ==
    (Quiescent /\ NoInitFailed /\ joinCnt > 0) => (sbox # 0 /\ sandboxes[sbox].alive)

\* C24: initSubnetSandbox only executes while the network's sandbox is
\* present: the handle a joiner reads at the start of initSubnetSandbox,
\* after its own JoinSandbox returned success, is non-nil and is that of a
\* live sandbox of the current epoch (stated here on the runs in which no
\* init routine has returned an error).
C24_SubnetInitSeesSandbox ==
    [][\A p \in Procs :
          (NoInitFailed /\ jpc[p] = "iss_sbox" /\ jpc'[p] = "iss_bridge")
              => (sbox # 0 /\ sandboxes[sbox].alive /\ sandboxes[sbox].key = initEpoch)]_vars

\* C6 (as stated): joinCnt is non-negative under any sequence of
\* IncEndpointCount and LeaveSandbox calls.
C6_NonNegativeAnySequence == joinCnt >= 0

\* C6 (amended): joinCnt is non-negative in every reachable state as long as
\* every LeaveSandbox call follows its caller's own IncEndpointCount.
C6_NonNegativeWhenMatched == ~strayLeave => joinCnt >= 0

C6_Witness ==
    /\ ~strayLeave
    /\ joinCnt = 0
    /\ \E p \in Procs : jpc[p] = "done"

\* C7: within one epoch initSandbox runs at most once per guard, and every
\* JoinSandbox caller of the epoch returns the result of that one run.
C7_InitOncePerEpoch ==
    /\ \A g \in 1..Len(guards) : guards[g].calls <= 1
    /\ \A p \in Procs :
          jret[p].same => jret[p].err = guards[jret[p].g].result

C7_Witness ==
    \E p, q \in Procs :
        /\ p # q
        /\ jret[p].same /\ jret[q].same
        /\ jret[p].g = jret[q].g
        /\ jret[p].err = "err"
        /\ guards[jret[p].g].calls = 1

\* C13: a watcher whose socket has been closed by the destruction of its
\* sandbox eventually exits (unless the process dies first).
C13_WatcherExitsAfterDestroy ==
    \A w \in WatcherIds :
        (w <= Len(watchers) /\ watchers[w].sock = "open"
                            /\ ~sandboxes[watchers[w].sb].alive)
            ~> (panicked \/ (w <= Len(watchers) /\ watchers[w].st = "exited"))

\* C14 (as stated): when every step of the probe succeeds hostMode stays
\* false, and when any step fails (creating the device, opening the
\* namespace, looking the device up, moving it) hostMode is true.
C14_AnyFailureSetsHostMode ==
    (hostModeDone /\ probe # "env") => (hostMode <=> probe # "ok")

\* C14 (amended): when every step of the probe succeeds hostMode stays false;
\* of the failures only that of moving the device into the namespace sets
\* hostMode; after a failure to create the device, to open the namespace or
\* to look the device up hostMode stays false.
C14_OnlyMoveFailureSetsHostMode ==
    (hostModeDone /\ probe # "env") => (hostMode <=> probe = "move")

C14_Witness ==
    /\ hostModeDone
    /\ probe = "create"
    /\ ~hostMode
    /\ \E p \in Procs : jpc[p] = "joined"

\* C15: a vxlan device created by initSubnetSandbox does not survive a failed
\* initSubnetSandbox, and none is left once every joiner has left.
C15_VxlanDeviceDeleted ==
    /\ \A s \in Subnets :
          (guards[sOnce[s]].st = "done" /\ guards[sOnce[s]].result = "err")
              => s \notin vxlanDev
    /\ AllLeft => vxlanDev = {}

\* the step is a leaveSandbox call of joiner p
LeaveStep(p) == jpc[p] \in {"joined", "joined_fail"} /\ jpc'[p] \in {"ds_read", "done"}

\* C19: the leave that brings joinCnt to 0 replaces the network guard and
\* every subnet guard by fresh ones before destroySandbox starts; a leave
\* that keeps joinCnt > 0 replaces no guard and destroys nothing; every
\* initSandbox enters with an initEpoch greater than that of every earlier
\* one, so every sandbox gets a key not used before.
C19_GuardsRearmedOnLastLeave ==
    /\ [][\A p \in Procs : LeaveStep(p) =>
             IF joinCnt' = 0
             THEN /\ once' \notin 1..Len(guards)
                  /\ guards'[once'] = FreshGuard
                  /\ \A s \in Subnets : /\ sOnce'[s] \notin 1..Len(guards)
                                        /\ sOnce'[s] # once'
                                        /\ guards'[sOnce'[s]] = FreshGuard
                  /\ jpc'[p] = "ds_read"
                  /\ <<sbox, sandboxes, vxlanDev, chain, filters>>' =
                        <<sbox, sandboxes, vxlanDev, chain, filters>>
             ELSE /\ <<once, sOnce, guards>>' = <<once, sOnce, guards>>
                  /\ jpc'[p] = "done"
                  /\ <<sbox, sandboxes, vxlanDev, chain, filters>>' =
                        <<sbox, sandboxes, vxlanDev, chain, filters>>]_vars
    /\ [][initEpoch' # initEpoch =>
             \A k \in 1..Len(sandboxes) : sandboxes[k].key < initEpoch']_vars
    /\ [](\A j, k \in 1..Len(sandboxes) : j < k => sandboxes[j].key < sandboxes[k].key)

C19_Witness ==
    /\ Len(sandboxes) = 2
    /\ sandboxes[1].key = 1
    /\ sandboxes[2].key = 2
    /\ guards[1].calls = 1
    /\ guards[once].calls = 1
    /\ once # 1

\* the step is the return of the initSandbox run by joiner p
InitSandboxReturn(p) ==
    jpc[p] \in {"is_chain", "is_newsb", "is_watch"} /\ jpc'[p] = "js_ret"

\* the watchers started on the sandbox the network holds
WatchersOf(ws, sb) == {w \in 1..Len(ws) : ws[w].sb = sb}

\* C20: when initSandbox returns an error the network has no sandbox handle,
\* no installed network chain and no watcher; when it returns success the
\* sandbox is installed and exactly one watcher runs on it, on a valid
\* socket (so a failed subscription is an error).
C20_InitSandboxAllOrNothing ==
    [][\A p \in Procs : InitSandboxReturn(p) =>
          IF initErr' # "nil"
          THEN /\ sbox' = 0
               /\ ~chain'
               /\ watchers' = watchers
          ELSE /\ sbox' # 0
               /\ sandboxes'[sbox'].alive
               /\ Len(watchers') = Len(watchers) + 1
               /\ WatchersOf(watchers', sbox') = {Len(watchers')}
               /\ watchers'[Len(watchers')].sock = "open"]_vars

(* --------------------- specification: the registry --------------------- *)
InitReg ==
    /\ store = [id \in NetIds |-> NoEntry]
    /\ allocated = {}
    /\ networks = [h \in Hosts |-> [id \in NetIds |-> NoNet]]
    /\ InitCallers
    /\ regOps = 0
    /\ lastOp = NoOp
    /\ del = [h \in Hosts |-> NoDel]
    /\ InitJoinVars
    /\ codec = CodecIdle /\ miss = MissIdle

\* the callers of this specification: one per host
RegCallers == {c \in Callers : c <= 2}

\* a join calling obtainVxlanID while nothing else runs on its host
ObtainCallIdle(c) == HostIdle(HostOf(c)) /\ ObtainCall(c)

NextReg ==
    \/ \E h \in Hosts, id \in NetIds \cup {""}, in \in CreateInputs :
          CreateNetwork(h, id, in.pools, in.gw)
    \/ \E h \in Hosts, id \in NetIds \cup {""} : DeleteNetwork(h, id)
    \/ \E h \in Hosts : releaseVxlanID(h)
    \/ \E h \in Hosts, id \in NetIds : Lookup(h, id)
    \/ \E c \in RegCallers :
          \/ ObtainCallIdle(c)
          \/ ObtainCheck(c)
          \/ ObtainGet(c)
          \/ ObtainTest(c)
          \/ ObtainGetID(c)
          \/ ObtainSet(c)
          \/ writeToStore(c)
          \/ ObtainRelease(c)
          \/ ObtainReset(c)

SpecReg == InitReg /\ [][NextReg]_vars

(* --------------------------- claims: the registry ---------------------- *)
\* the step is the return of the DeleteNetwork of host h
DeleteReturns == lastOp'.op = "delete" /\ del[lastOp'.host].present
                 /\ ~del'[lastOp'.host].present

\* Lookup(id) on host h would report not found
LookupNotFound(nets, h, id, entry) == ~network(nets, h, id, entry)[h][id].present

\* C8: after DeleteNetwork(id) returns success for a registered network (with
\* any number of subnets), the registry holds no entry for id, the store
\* holds no entry under the key, and Lookup(id) reports not found.
C8_DeleteLeavesNothing ==
    [][(DeleteReturns /\ lastOp'.outcome = "ok" /\ lastOp'.wasReg) =>
          /\ ~networks'[lastOp'.host][lastOp'.id].present
          /\ ~store'[lastOp'.id].exists
          /\ LookupNotFound(networks', lastOp'.host, lastOp'.id, store'[lastOp'.id])]_vars

CreateReturns == lastOp'.op = "create" /\ regOps' = regOps + 1 /\ del' = del

\* C10: CreateNetwork registers the network iff it returns success: on an
\* error the registry is unchanged; on success the network is registered and
\* persisted with one subnet per pool, in pool order, each with vni 0.
C10_CreateRegistersIffSuccess ==
    [][CreateReturns =>
          LET h == lastOp'.host
              id == lastOp'.id
              pools == lastOp'.pools
          IN /\ lastOp'.outcome # "ok" => networks' = networks
             /\ lastOp'.outcome = "ok" =>
                   /\ id \in NetIds
                   /\ networks'[h][id].present
                   /\ store'[id].exists
                   /\ store'[id].val = Value(networks'[h][id])
                   /\ Len(networks'[h][id].subnets) = Len(pools)
                   /\ \A i \in 1..Len(pools) :
                         /\ networks'[h][id].subnets[i].subnetIP = pools[i].Pool
                         /\ networks'[h][id].subnets[i].gwIP = pools[i].Gateway
                         /\ networks'[h][id].subnets[i].vni = 0]_vars

C10_Witness ==
    /\ lastOp.op = "create"
    /\ lastOp.outcome = "ok"
    /\ Len(lastOp.pools) = 2
    /\ networks[lastOp.host][lastOp.id].present

(* =================== specification: codec and lookups ================== *)
\* the subnets of the networks the calls are made on: addresses with and
\* without host bits, two mask lengths, device names and guard as left by a
\* join when the subnet has a vni
CodecSubnets ==
    {[subnetIP |-> ip, gwIP |-> CIDR(17, 4), vni |-> v,
      vxlanName |-> IF v = 0 THEN "" ELSE "vx",
      brName |-> IF v = 0 THEN "" ELSE "ov",
      once |-> IF v = 0 THEN "fresh" ELSE "done"] :
        ip \in {CIDR(16, 4), CIDR(18, 4), CIDR(16, 2)}, v \in {0, 1, MaxVni}}

\* the subnets of the values decoded onto them: one of them matches no subnet
IncomingSubnets ==
    {NewSubnet(ip, CIDR(33, 4), v) :
        ip \in {CIDR(16, 4), CIDR(16, 2), CIDR(48, 4)}, v \in {0, MaxVni}}

SeqsUpTo(S, n) == UNION {[1..k -> S] : k \in 0..n}

NetworkOf(subnets, gw) ==
    [present |-> TRUE, subnets |-> subnets, disableDefaultGW |-> gw,
     dbIndex |-> 0, dbExists |-> FALSE]

CodecNets ==
    {NetworkOf(s, gw) : s \in SeqsUpTo(CodecSubnets, MaxCodecSubnets), gw \in BOOLEAN}

IncomingNets ==
    {NetworkOf(s, gw) : s \in SeqsUpTo(IncomingSubnets, MaxCodecSubnets), gw \in BOOLEAN}

\* the addresses looked up: inside and outside the subnets, both mask lengths
LookupIPs == {CIDR(i, l) : i \in {16, 19, 20, 33}, l \in {2, 4}}

\* getNetworkFromStore's network before GetObject fills it: no subnets
Hydrated == NetworkOf(<<>>, FALSE)

InitCodec ==
    /\ InitStoreIdle
    /\ InitJoinVars
    /\ codec \in {[pc |-> "start", net |-> n] : n \in CodecNets}
    /\ miss = MissIdle

\* n.Value()
CodecValue ==
    /\ codec.pc = "start"
    /\ codec' = [pc |-> "encoded", net |-> codec.net, value |-> Value(codec.net)]
    /\ UNCHANGED <<storeVars, joinVars, miss>>

\* SetValue(value) on a just-hydrated network
CodecSetValueFresh ==
    /\ codec.pc = "encoded"
    /\ codec' = [pc |-> "decoded", net |-> codec.net, value |-> codec.value,
                 out |-> SetValue(Hydrated, codec.value)]
    /\ UNCHANGED <<storeVars, joinVars, miss>>

\* SetValue(value) on a network that has subnets, with the value of another
\* configuration
CodecSetValueMerge ==
    /\ codec.pc = "start"
    /\ Len(codec.net.subnets) > 0
    /\ \E in \in IncomingNets :
          codec' = [pc |-> "merged", net |-> codec.net, in |-> in,
                    out |-> SetValue(codec.net, Value(in))]
    /\ UNCHANGED <<storeVars, joinVars, miss>>

\* getSubnetforIP(ip) with a non-nil ip
CodecGetSubnetforIP ==
    /\ codec.pc = "start"
    /\ \E ip \in LookupIPs :
          codec' = [pc |-> "looked", net |-> codec.net, ip |-> ip,
                    found |-> getSubnetforIP(codec.net.subnets, ip, 1)]
    /\ UNCHANGED <<storeVars, joinVars, miss>>

\* getSubnetforIP(nil) and getMatchingSubnet(nil)
CodecLookupNil ==
    /\ codec.pc = "start"
    /\ codec' = [pc |-> "nil_looked", net |-> codec.net,
                 found |-> getSubnetforIP(codec.net.subnets, NilCIDR, 1),
                 matched |-> getMatchingSubnet(codec.net.subnets, NilCIDR)]
    /\ UNCHANGED <<storeVars, joinVars, miss>>

NextCodec ==
    \/ CodecValue
    \/ CodecSetValueFresh
    \/ CodecSetValueMerge
    \/ CodecGetSubnetforIP
    \/ CodecLookupNil

SpecCodec == InitCodec /\ [][NextCodec]_vars

SameMaskAndContains(s, ip) ==
    /\ s.subnetIP.len = ip.len
    /\ \E off \in 0..(2^(AddrBits - ip.len) - 1) :
          ip.ip = (s.subnetIP.ip - (s.subnetIP.ip % 2^(AddrBits - ip.len))) + off

\* C12: for a non-nil ip getSubnetforIP returns subnet s iff s is the first
\* subnet, in the network's order, whose mask length equals ip's and whose
\* subnetIP contains ip.IP; it returns nil iff there is no such subnet.
C12_FirstContainingSubnet ==
    codec.pc = "looked" =>
        LET subnets == codec.net.subnets
            hits == {i \in 1..Len(subnets) : SameMaskAndContains(subnets[i], codec.ip)}
        IN /\ codec.found = 0 <=> hits = {}
           /\ codec.found # 0 =>
                 /\ codec.found \in hits
                 /\ \A i \in hits : codec.found <= i

C12_Witness ==
    /\ codec.pc = "looked"
    /\ codec.found = 2
    /\ codec.net.subnets[1].subnetIP.len # codec.ip.len
    /\ Contains(codec.net.subnets[1].subnetIP, codec.ip.ip)
    /\ codec.net.subnets[2].subnetIP.ip # codec.ip.ip

\* the existing subnet a decoded subnet is copied onto: the first with the
\* same address and mask length, 0 if there is none
MatchOf(subnets, d) ==
    LET same == {i \in 1..Len(subnets) : /\ subnets[i].subnetIP.ip = d.subnetIP.ip
                                          /\ subnets[i].subnetIP.len = d.subnetIP.len}
    IN IF same = {} THEN 0 ELSE CHOOSE i \in same : \A k \in same : i <= k

\* C18: SetValue on a network with subnets sets, for each decoded subnet, the
\* vni of the existing subnet with the same subnetIP.IP and mask length, and
\* leaves unchanged the number and order of subnets, every subnet's subnetIP,
\* gwIP, vxlanName, brName and guard, and the vni of every subnet not
\* matched; decoded subnets matching no existing subnet are ignored.
C18_MergeCopiesOnlyVnis ==
    codec.pc = "merged" =>
        LET old == codec.net.subnets
            new == codec.out.subnets
            dec == codec.in.subnets
        IN /\ Len(new) = Len(old)
           /\ \A i \in 1..Len(old) :
                 /\ new[i].subnetIP = old[i].subnetIP
                 /\ new[i].gwIP = old[i].gwIP
                 /\ new[i].vxlanName = old[i].vxlanName
                 /\ new[i].brName = old[i].brName
                 /\ new[i].once = old[i].once
                 /\ LET from == {k \in 1..Len(dec) : MatchOf(old, dec[k]) = i}
                    IN IF from = {} THEN new[i].vni = old[i].vni
                       ELSE new[i].vni = dec[CHOOSE k \in from : \A j \in from : j <= k].vni

C18_Witness ==
    /\ codec.pc = "merged"
    /\ Len(codec.net.subnets) = 2
    /\ Len(codec.in.subnets) = 2
    /\ codec.in.subnets[1].subnetIP = CIDR(48, 4)
    /\ codec.in.subnets[2].subnetIP = codec.net.subnets[2].subnetIP
    /\ codec.net.subnets[1].subnetIP # codec.net.subnets[2].subnetIP
    /\ codec.net.subnets[2].vni = 0
    /\ codec.out.subnets[2].vni = MaxVni
    /\ codec.out.subnets[1].vni = 1

\* C22: both lookups, called with nil on a network with any number of
\* subnets, return not found without faulting.
C22_NilTolerated ==
    codec.pc = "nil_looked" => (codec.found = 0 /\ codec.matched = 0)

(* ================ specification: neighbor miss messages ================= *)
\* the address of a neighbor message: its length in bytes (4 for IPv4, 16
\* for IPv6, 0 for a message without an address) and the peer it names
NeighIPs == {[len |-> l, peer |-> h] : l \in {0, 4, 16}, h \in {"a", "b"}}

\* the neighbor states: sets of NUD flags
NeighStates == {{}, {"REACHABLE"}, {"STALE"}, {"INCOMPLETE", "REACHABLE"}}

\* a netlink message: its header type, whether its data deserializes, and
\* the address and state of the neighbor it describes
NeighMsgs ==
    {[type |-> ty, data |-> d, ip |-> ip, state |-> st] :
        ty \in {"RTM_GETNEIGH", "RTM_NEWNEIGH", "RTM_DELNEIGH"},
        d \in {"ok", "bad"}, ip \in NeighIPs, st \in NeighStates}

\* what one Receive returns: 1..MaxMsgs messages
MsgBatches == UNION {[1..n -> NeighMsgs] : n \in 1..MaxMsgs}

\* net.IP.To16(): an address of 4 bytes is converted to its 16-byte form, one
\* of 16 bytes is returned as it is, any other length gives nil
To16(ip) == IF ip.len \in {4, 16} THEN [len |-> 16, peer |-> ip.peer] ELSE [len |-> 0, peer |-> ""]

IsNilIP(ip) == ip.len = 0

\* the PeerDB of the network: the IPv4 peer "a" is known, with its MAC, mask
\* and VTEP; peer "b" is not
PeerDb == [a |-> [mac |-> "mac_a", mask |-> 4, vtep |-> "vtep_a"]]

\* d.resolvePeer(n.id, ip): the entry of the PeerDB for the address, or an error
resolvePeer(ip) ==
    IF ip.len = 4 /\ ip.peer \in DOMAIN PeerDb
    THEN [err |-> FALSE, mac |-> PeerDb[ip.peer].mac, mask |-> PeerDb[ip.peer].mask,
          vtep |-> PeerDb[ip.peer].vtep]
    ELSE [err |-> TRUE, mac |-> "", mask |-> 0, vtep |-> ""]

\* the message made no call
NoCall == [peerAdd |-> FALSE]

\* d.peerAdd(n.id, "dummy", ip, mask, mac, vtep, true)
PeerAddCall(ip, r) ==
    [peerAdd |-> TRUE, eid |-> "dummy", ip |-> ip, mask |-> r.mask, mac |-> r.mac,
     vtep |-> r.vtep, fromMiss |-> TRUE]

\* lines 348-374: the body of the loop over the messages: the call the
\* message leads to
HandleMsg(msg) ==
    IF msg.type # "RTM_GETNEIGH" /\ msg.type # "RTM_NEWNEIGH" THEN NoCall
    ELSE IF msg.data # "ok" THEN NoCall
    ELSE IF ~IsNilIP(To16(msg.ip)) THEN NoCall
    ELSE IF msg.state \cap {"STALE", "INCOMPLETE"} = {} THEN NoCall
    ELSE IF resolvePeer(msg.ip).err THEN NoCall
    ELSE PeerAddCall(msg.ip, resolvePeer(msg.ip))

\* line 341: Receive returns a batch of messages
MissReceive ==
    /\ miss.pc = "idle"
    /\ \E msgs \in MsgBatches :
          miss' = [pc |-> "range", msgs |-> msgs, i |-> 1, calls |-> <<>>]
    /\ UNCHANGED <<storeVars, joinVars, codec>>

\* lines 347-375: the next message of the batch
MissMessage ==
    /\ miss.pc = "range"
    /\ miss.i <= Len(miss.msgs)
    /\ miss' = [miss EXCEPT !.i = miss.i + 1,
                            !.calls = Append(miss.calls, HandleMsg(miss.msgs[miss.i]))]
    /\ UNCHANGED <<storeVars, joinVars, codec>>

\* line 340: the batch is done, the watcher receives again
MissNext ==
    /\ miss.pc = "range"
    /\ miss.i > Len(miss.msgs)
    /\ miss' = MissIdle
    /\ UNCHANGED <<storeVars, joinVars, codec>>

NextMiss ==
    \/ MissReceive
    \/ MissMessage
    \/ MissNext

SpecMiss == InitJoin /\ [][NextMiss]_vars

(* ---------------------- claims: neighbor miss messages ----------------- *)
\* the message is of type RTM_GETNEIGH or RTM_NEWNEIGH, deserializes, carries
\* an IPv4 address, has a state including STALE or INCOMPLETE, and its
\* address resolves in the PeerDB
Qualifies(msg) ==
    /\ msg.type \in {"RTM_GETNEIGH", "RTM_NEWNEIGH"}
    /\ msg.data = "ok"
    /\ msg.ip.len = 4
    /\ msg.state \cap {"STALE", "INCOMPLETE"} # {}
    /\ msg.ip.peer \in DOMAIN PeerDb

\* C21: for every message of a batch the watcher has handled: if the message
\* qualifies, the watcher called peerAdd with the resolved MAC, mask and VTEP,
\* marked as from-miss; if it does not, the watcher made no call; and the
\* watcher goes on to the next message.
C21_PeerAddIffQualifies ==
    miss.pc = "range" =>
        /\ Len(miss.calls) = miss.i - 1
        /\ \A k \in 1..Len(miss.calls) :
              miss.calls[k] =
                  IF Qualifies(miss.msgs[k])
                  THEN [peerAdd |-> TRUE, eid |-> "dummy", ip |-> miss.msgs[k].ip,
                        mask |-> PeerDb[miss.msgs[k].ip.peer].mask,
                        mac |-> PeerDb[miss.msgs[k].ip.peer].mac,
                        vtep |-> PeerDb[miss.msgs[k].ip.peer].vtep, fromMiss |-> TRUE]
                  ELSE NoCall
====
